---- MODULE Spec2Model ----
(***************************************************************************)
(* Model of the /lookup handler and of range_to_array of                   *)
(* bgpkit/wayback-rpki-api (src/main.py).                                  *)
(*                                                                         *)
(* Python strings are modelled as sequences of one-character strings, so   *)
(* that stripping, splitting, formatting and parsing are computed and not  *)
(* assumed.  An optional value (None or a value) is the empty sequence or  *)
(* a one-element sequence.                                                 *)
(***************************************************************************)
EXTENDS Integers, Sequences, FiniteSets, TLC

VARIABLES
    pc,          \* position of the /lookup handler: "idle", "waiting", "done"
    req,         \* the query parameters of the request being handled
    rpc,         \* the arguments of the store call in flight (optional)
    storeCalls,  \* number of supabase.rpc calls made for this request
    data,        \* the store's reply, res.json() (optional)
    resp,        \* the HTTP response (optional)
    token,       \* range_to_array: its argument
    result,      \* range_to_array: its outcome (optional)
    store,       \* pager: the rows the unchanging store holds
    cpc,         \* pager: position of the paging client
    cpage,       \* pager: the page the client requests next
    climit,      \* pager: the limit the client uses
    got,         \* pager: the rows received so far, in order
    emptyLater,  \* pager: number of empty pages received after the first page
    requests     \* pager: number of requests made

vars == <<pc, req, rpc, storeCalls, data, resp, token, result,
          store, cpc, cpage, climit, got, emptyLater, requests>>

handlerVars == <<pc, req, rpc, storeCalls, data, resp>>
rangeVars == <<token, result>>
pagerVars == <<store, cpc, cpage, climit, got, emptyLater, requests>>

-----------------------------------------------------------------------------
(* Optional values *)

None == <<>>
Some(x) == <<x>>

-----------------------------------------------------------------------------
(* Strings as character sequences *)

DigitChars == <<"0", "1", "2", "3", "4", "5", "6", "7", "8", "9">>

IsDigit(c) == \E i \in 1..10 : DigitChars[i] = c

DigitVal(c) == (CHOOSE i \in 1..10 : DigitChars[i] = c) - 1

AllDigits(s) == \A i \in 1..Len(s) : IsDigit(s[i])

\* int(s) for a non-empty string of decimal digits
RECURSIVE DigitsToNat(_)
DigitsToNat(s) ==
    IF Len(s) = 0 THEN 0
    ELSE 10 * DigitsToNat(SubSeq(s, 1, Len(s) - 1)) + DigitVal(s[Len(s)])

\* str(n) for n >= 0
RECURSIVE NatToStr(_)
NatToStr(n) ==
    IF n < 10 THEN <<DigitChars[n + 1]>>
    ELSE NatToStr(n \div 10) \o <<DigitChars[(n % 10) + 1]>>

\* f"{n}" for an int
IntToStr(n) == IF n < 0 THEN <<"-">> \o NatToStr(0 - n) ELSE NatToStr(n)

\* n formatted with at least w digits, zero padded (strftime's %Y, %M, %d)
RECURSIVE ZeroPad(_, _)
ZeroPad(s, w) == IF Len(s) >= w THEN s ELSE ZeroPad(<<"0">> \o s, w)

\* str.lstrip(chars)
RECURSIVE LStrip(_, _)
LStrip(s, chars) ==
    IF Len(s) > 0 /\ s[1] \in chars THEN LStrip(Tail(s), chars) ELSE s

\* str.rstrip(chars)
RECURSIVE RStrip(_, _)
RStrip(s, chars) ==
    IF Len(s) > 0 /\ s[Len(s)] \in chars
    THEN RStrip(SubSeq(s, 1, Len(s) - 1), chars)
    ELSE s

\* str.split(sep) for a one-character separator: always at least one part
RECURSIVE SplitAcc(_, _, _)
SplitAcc(s, sep, cur) ==
    IF Len(s) = 0 THEN <<cur>>
    ELSE IF s[1] = sep THEN <<cur>> \o SplitAcc(Tail(s), sep, <<>>)
    ELSE SplitAcc(Tail(s), sep, Append(cur, s[1]))

Split(s, sep) == SplitAcc(s, sep, <<>>)

\* sep.join(parts)
RECURSIVE Join(_, _)
Join(parts, sep) ==
    IF Len(parts) = 0 THEN <<>>
    ELSE IF Len(parts) = 1 THEN parts[1]
    ELSE parts[1] \o sep \o Join(Tail(parts), sep)

-----------------------------------------------------------------------------
(* datetime: dates are records [y, m, d]; the time of day is carried apart *)

IsLeap(y) == (y % 4 = 0 /\ y % 100 /= 0) \/ (y % 400 = 0)

DaysInMonth(y, m) ==
    IF m = 2 THEN (IF IsLeap(y) THEN 29 ELSE 28)
    ELSE IF m \in {4, 6, 9, 11} THEN 30
    ELSE 31

ValidDate(y, m, d) ==
    /\ y \in 1..9999
    /\ m \in 1..12
    /\ d \in 1..DaysInMonth(y, m)

\* date + timedelta(days=1)
PlusOneDay(dt) ==
    IF dt.d < DaysInMonth(dt.y, dt.m) THEN [dt EXCEPT !.d = dt.d + 1]
    ELSE IF dt.m < 12 THEN [dt EXCEPT !.m = dt.m + 1, !.d = 1]
    ELSE [dt EXCEPT !.y = dt.y + 1, !.m = 1, !.d = 1]

\* date - timedelta(days=1)
MinusOneDay(dt) ==
    IF dt.d > 1 THEN [dt EXCEPT !.d = dt.d - 1]
    ELSE IF dt.m > 1
    THEN [dt EXCEPT !.m = dt.m - 1, !.d = DaysInMonth(dt.y, dt.m - 1)]
    ELSE [dt EXCEPT !.y = dt.y - 1, !.m = 12, !.d = 31]

\* isoformat of a date: YYYY-MM-DD
DateText(dt) ==
    ZeroPad(NatToStr(dt.y), 4) \o <<"-">> \o ZeroPad(NatToStr(dt.m), 2)
        \o <<"-">> \o ZeroPad(NatToStr(dt.d), 2)

-----------------------------------------------------------------------------
(* Outcome of a call: a returned value or a raised exception *)

Return(v) == [ok |-> TRUE, value |-> v, error |-> ""]
Raise(e) == [ok |-> FALSE, value |-> <<>>, error |-> e]

-----------------------------------------------------------------------------
(* range_to_array, src/main.py:263-275 *)

\* the fields of a text split on '-', read by the format '%Y-%M-%d': %Y
\* (exactly four digits, year >= 1), %M (the MINUTE: one or two digits,
\* 0..59) and %d (one or two digits, valid in the parsed month).  The format
\* holds no month directive, so the month of the result is 1.
ParseFields(f) ==
    IF Len(f) /= 3 THEN Raise("ValueError")
    ELSE IF ~(\A i \in 1..3 : Len(f[i]) > 0 /\ AllDigits(f[i]))
    THEN Raise("ValueError")
    ELSE IF Len(f[1]) /= 4 \/ Len(f[2]) > 2 \/ Len(f[3]) > 2
    THEN Raise("ValueError")
    ELSE IF DigitsToNat(f[2]) > 59
            \/ ~ValidDate(DigitsToNat(f[1]), 1, DigitsToNat(f[3]))
    THEN Raise("ValueError")
    ELSE Return([y |-> DigitsToNat(f[1]), m |-> 1, d |-> DigitsToNat(f[3]),
                 minute |-> DigitsToNat(f[2])])

\* datetime.datetime.strptime(text, '%Y-%M-%d')
strptime(text) == ParseFields(Split(text, "-"))

\* datetime.strftime('%Y-%M-%d'): year, MINUTE and day (glibc: %Y is the
\* year without padding, %M and %d are two digits)
strftime(dt) ==
    NatToStr(dt.y) \o <<"-">> \o ZeroPad(NatToStr(dt.minute), 2)
        \o <<"-">> \o ZeroPad(NatToStr(dt.d), 2)

\* moved.strftime('%Y-%M-%d') for a datetime moved by one day; datetime
\* arithmetic raises OverflowError outside the years 1..9999
FormatMoved(moved) ==
    IF moved.y \notin 1..9999 THEN Raise("OverflowError")
    ELSE Return(strftime(moved))

\* (p + timedelta(days=delta)).strftime(...) for a parsed p, delta in {1, -1}
MoveParsed(p, delta) ==
    IF ~p.ok THEN p
    ELSE FormatMoved(IF delta = 1 THEN PlusOneDay(p.value)
                     ELSE MinusOneDay(p.value))

\* (strptime(text) + timedelta(days=delta)).strftime(...), src/main.py:272,274
ShiftDay(text, delta) == MoveParsed(strptime(text), delta)

\* return [start, end], src/main.py:275, unless computing start or end raised
PairOf(start, end) ==
    IF ~start.ok THEN start
    ELSE IF ~end.ok THEN end
    ELSE Return(<<start.value, end.value>>)

\* start, end = parts, src/main.py:270, and the two shifts, src/main.py:271-274
UnpackAndShift(parts, start_exclusive, end_exclusive) ==
    IF Len(parts) /= 2 THEN Raise("ValueError")
    ELSE PairOf(IF start_exclusive THEN ShiftDay(parts[1], 1)
                ELSE Return(parts[1]),
                IF end_exclusive THEN ShiftDay(parts[2], -1)
                ELSE Return(parts[2]))

range_to_array(date_range) ==
    IF Len(date_range) = 0 THEN Raise("IndexError")
    ELSE UnpackAndShift(
             Split(RStrip(LStrip(date_range, {"[", "("}), {"]", ")"}), ","),
             date_range[1] = "(",
             date_range[Len(date_range)] = ")")

-----------------------------------------------------------------------------
(* Inputs of range_to_array *)

SampleYears == {2023, 2024}
SampleMonths == {1, 2, 3, 12}
SampleDays == {1, 28, 29, 30, 31}

\* valid calendar dates around month, leap-day and year boundaries
SampleDates ==
    {dt \in [y : SampleYears, m : SampleMonths, d : SampleDays] :
        ValidDate(dt.y, dt.m, dt.d)}

OpenMarkers == {<<"[">>, <<"(">>}
CloseMarkers == {<<"]">>, <<")">>}

\* a raw interval token: marker, date, ',', date, marker
MakeToken(lead, s, e, trail) ==
    lead \o DateText(s) \o <<",">> \o DateText(e) \o trail

WellFormedTokens ==
    {MakeToken(l, s, e, t) :
        l \in OpenMarkers, s \in SampleDates, e \in SampleDates,
        t \in CloseMarkers}

Feb09 == [y |-> 2021, m |-> 2, d |-> 9]
Jan27 == [y |-> 2022, m |-> 1, d |-> 27]

\* texts between the markers that are not two dates, and one that is
OddBodies ==
    { <<>>,
      DateText(Feb09),
      DateText(Feb09) \o <<",">> \o DateText(Jan27) \o <<",">>
          \o DateText(Jan27),
      <<"f", "o", "o", ",", "b", "a", "r">>,
      <<"f", "o", "o", ",">> \o DateText(Jan27),
      DateText(Feb09) \o <<",">> \o DateText(Jan27) }

OddTokens ==
    {l \o b \o t :
        l \in OpenMarkers \cup {<<>>, <<"x">>}, b \in OddBodies,
        t \in CloseMarkers \cup {<<>>, <<"x">>}}

Tokens == WellFormedTokens \cup OddTokens

-----------------------------------------------------------------------------
(* Initial values of the three parts of the state *)

HandlerInit ==
    /\ pc = "idle"
    /\ req = None
    /\ rpc = None
    /\ storeCalls = 0
    /\ data = None
    /\ resp = None

RangeInit ==
    /\ token = <<>>
    /\ result = None

PagerInit ==
    /\ store = <<>>
    /\ cpc = "off"
    /\ cpage = 1
    /\ climit = 1
    /\ got = <<>>
    /\ emptyLater = 0
    /\ requests = 0

-----------------------------------------------------------------------------
(* range_to_array applied to one token *)

InitRange ==
    /\ HandlerInit
    /\ PagerInit
    /\ token \in Tokens
    /\ result = None

Normalize ==
    /\ result = None
    /\ result' = Some(range_to_array(token))
    /\ UNCHANGED <<token, handlerVars, pagerVars>>

NextRange == Normalize

SpecRange == InitRange /\ [][NextRange]_vars

-----------------------------------------------------------------------------
(* Claims about range_to_array (SpecRange) *)

\* text is YYYY-MM-DD and names a valid calendar date
IsDateText(text) ==
    /\ Len(text) = 10
    /\ text[5] = "-" /\ text[8] = "-"
    /\ \A i \in {1, 2, 3, 4, 6, 7, 9, 10} : IsDigit(text[i])
    /\ ValidDate(DigitsToNat(SubSeq(text, 1, 4)),
                 DigitsToNat(SubSeq(text, 6, 7)),
                 DigitsToNat(SubSeq(text, 9, 10)))

\* the calendar date a YYYY-MM-DD text names
DateOfText(text) ==
    [y |-> DigitsToNat(SubSeq(text, 1, 4)),
     m |-> DigitsToNat(SubSeq(text, 6, 7)),
     d |-> DigitsToNat(SubSeq(text, 9, 10))]

\* a token made of a marker, two valid calendar dates and a marker
IsValidToken(tok) ==
    /\ Len(tok) = 23
    /\ <<tok[1]>> \in OpenMarkers
    /\ <<tok[23]>> \in CloseMarkers
    /\ tok[12] = ","
    /\ IsDateText(SubSeq(tok, 2, 11))
    /\ IsDateText(SubSeq(tok, 13, 22))

\* the closed pair the claim expects for a valid token
ExpectedPair(tok) ==
    LET s == DateOfText(SubSeq(tok, 2, 11))
        e == DateOfText(SubSeq(tok, 13, 22))
    IN  << DateText(IF tok[1] = "(" THEN PlusOneDay(s) ELSE s),
           DateText(IF tok[23] = ")" THEN MinusOneDay(e) ELSE e) >>

\* C1: for every token of two valid calendar dates and every combination of
\* markers, range_to_array returns the closed pair: the start advanced by one
\* calendar day after '(', the end retreated by one calendar day before ')',
\* the shift carrying across month and year boundaries.
C1_ClosedPairByCalendar ==
    (result /= None /\ IsValidToken(token))
        => result[1] = Return(ExpectedPair(token))

\* the text between the markers splits on ',' into exactly two date strings
SplitsIntoTwoDates(tok) ==
    LET parts == Split(RStrip(LStrip(tok, {"[", "("}), {"]", ")"}), ",")
    IN  /\ Len(parts) = 2
        /\ IsDateText(parts[1])
        /\ IsDateText(parts[2])

\* C10: range_to_array fails, and returns no pair, for every token whose
\* first character is neither '(' nor '[', whose last character is neither
\* ')' nor ']', or whose text between the markers does not split on ',' into
\* exactly two date strings.
C10_MalformedTokenFails ==
    (/\ result /= None
     /\ Len(token) > 0
     /\ \/ token[1] \notin {"(", "["}
        \/ token[Len(token)] \notin {")", "]"}
        \/ ~SplitsIntoTwoDates(token))
        => ~result[1].ok

-----------------------------------------------------------------------------
(* The /lookup handler, src/main.py:125-260 *)

\* BASEURL, src/main.py:21
BASEURL ==
    <<"h", "t", "t", "p", "s", ":", "/", "/",
       "a", "p", "i", ".", "r", "o", "a", "s", ".", 
       "b", "g", "p", "k", "i", "t", ".", "c", "o", "m", "/">>

\* default of the limit parameter, src/main.py:127
DefaultLimit == 100

\* the defaults of the query parameters, src/main.py:126-128
Defaults ==
    [prefix |-> <<>>, asn |-> -1, tal |-> <<>>, date |-> <<>>,
     max_len |-> -1, limit |-> DefaultLimit, page |-> 1, pretty |-> FALSE]

\* names of the query parameters as they are written into the URL
ParamName ==
    [prefix |-> <<"p", "r", "e", "f", "i", "x">>,
     asn |-> <<"a", "s", "n">>,
     tal |-> <<"t", "a", "l">>,
     limit |-> <<"l", "i", "m", "i", "t">>,
     date |-> <<"d", "a", "t", "e">>,
     max_len |-> <<"m", "a", "x", "_", "l", "e", "n">>,
     page |-> <<"p", "a", "g", "e">>]

\* a Response with a JSON body: the envelope, the status code and whether
\* json.dumps was given indent=4
JsonResponse(status, envelope, indented) ==
    [status |-> status, body |-> Some(envelope), indent |-> indented]

\* what the framework answers when the handler raises: no envelope
InternalServerError == [status |-> 500, body |-> None, indent |-> FALSE]

\* the envelope of a failure, src/main.py:199-200 and 213-214
FailureEnvelope(r, message) ==
    [limit |-> r.limit, count |-> 0, next_page |-> None,
     next_page_num |-> None, data |-> <<>>, error |-> Some(message)]

\* a faulty variant of PageIsValid: page 0 passes
PageIsValid_ZeroPasses(r) == ~(r.page < 0)

\* "if page < 1" is false, src/main.py:198
PageIsValid(r) == ~(r.page < 1)

\* the 400 answer to an invalid page, src/main.py:199-201
ValidationFailure(r) ==
    JsonResponse(400,
                 FailureEnvelope(r, "parameters validation failed: page>=1"),
                 FALSE)

\* a faulty variant of Dispatch: the offset is page * limit
Dispatch_OffsetFromPage(r) ==
    [prefix |-> r.prefix, asn |-> r.asn, nic |-> r.tal,
     res_limit |-> r.limit, date |-> r.date, max_len |-> r.max_len,
     res_offset |-> r.page * r.limit]

\* the arguments of supabase.rpc('query_history_2', ...), src/main.py:202-208
Dispatch(r) ==
    [prefix |-> r.prefix, asn |-> r.asn, nic |-> r.tal,
     res_limit |-> r.limit, date |-> r.date, max_len |-> r.max_len,
     res_offset |-> (r.page - 1) * r.limit]

\* the store's reply, res.json(): a list of rows, or an object that carries
\* a message
RowsReply(rows) == [isList |-> TRUE, rows |-> rows, message |-> ""]
MessageReply(m) == [isList |-> FALSE, rows |-> <<>>, message |-> m]

\* 'message' in data, src/main.py:212 (reply is the handler's data)
HasMessage(reply) == ~reply.isList

\* a faulty variant of QueryFailure: status_code=400 is left out
QueryFailure_Status200(r, reply) ==
    JsonResponse(200, FailureEnvelope(r, reply.message), FALSE)

\* the 400 answer to a store failure, src/main.py:213-215
QueryFailure(r, reply) ==
    JsonResponse(400, FailureEnvelope(r, reply.message), FALSE)

\* the outcome of a loop whose iterations had the outcomes outs: the
\* exception of the first iteration that raised, else the list of the values
Collect(outs) ==
    IF \E i \in 1..Len(outs) : ~outs[i].ok
    THEN Raise(outs[CHOOSE i \in 1..Len(outs) :
                        /\ ~outs[i].ok
                        /\ \A j \in 1..(i - 1) : outs[j].ok].error)
    ELSE Return([i \in 1..Len(outs) |-> outs[i].value])

\* entry['date_ranges'] = new_ranges, src/main.py:225
WithRanges(entry, new_ranges) ==
    IF ~new_ranges.ok THEN new_ranges
    ELSE Return([entry EXCEPT !.date_ranges = new_ranges.value])

\* one entry with its date_ranges replaced, src/main.py:221-225
UpdateRanges(entry) ==
    WithRanges(entry,
               Collect([i \in 1..Len(entry.date_ranges) |->
                           range_to_array(entry.date_ranges[i])]))

\* new_data, src/main.py:217-227
NewData(rows) == Collect([i \in 1..Len(rows) |-> UpdateRanges(rows[i])])

\* one "name=value" of the query string
Param(name, value) == ParamName[name] \o <<"=">> \o value

\* a faulty variant of NextPageParams: asn and max_len are appended only when > 0
NextPageParams_StrictlyPositive(r) ==
    (IF r.prefix /= <<>> THEN <<Param("prefix", r.prefix)>> ELSE <<>>)
    \o (IF r.asn > 0 THEN <<Param("asn", IntToStr(r.asn))>> ELSE <<>>)
    \o (IF r.tal /= <<>> THEN <<Param("tal", r.tal)>> ELSE <<>>)
    \o (IF r.limit > 0 THEN <<Param("limit", IntToStr(r.limit))>> ELSE <<>>)
    \o (IF r.date /= <<>> THEN <<Param("date", r.date)>> ELSE <<>>)
    \o (IF r.max_len > 0 THEN <<Param("max_len", IntToStr(r.max_len))>>
        ELSE <<>>)
    \o (IF r.page > 0 THEN <<Param("page", IntToStr(r.page + 1))>> ELSE <<>>)

\* params, src/main.py:235-249
NextPageParams(r) ==
    (IF r.prefix /= <<>> THEN <<Param("prefix", r.prefix)>> ELSE <<>>)
    \o (IF r.asn >= 0 THEN <<Param("asn", IntToStr(r.asn))>> ELSE <<>>)
    \o (IF r.tal /= <<>> THEN <<Param("tal", r.tal)>> ELSE <<>>)
    \o (IF r.limit > 0 THEN <<Param("limit", IntToStr(r.limit))>> ELSE <<>>)
    \o (IF r.date /= <<>> THEN <<Param("date", r.date)>> ELSE <<>>)
    \o (IF r.max_len >= 0 THEN <<Param("max_len", IntToStr(r.max_len))>>
        ELSE <<>>)
    \o (IF r.page > 0 THEN <<Param("page", IntToStr(r.page + 1))>> ELSE <<>>)

\* a faulty variant of NextPage: the page number is set only after the first page
NextPage_NumAfterFirstPage(r, length) ==
    IF length >= r.limit
    THEN [url |-> Some(RStrip(BASEURL, {"/"})
                        \o <<"/", "l", "o", "o", "k", "u", "p", "?">>
                        \o Join(NextPageParams(r), <<"&">>)),
          num |-> IF r.page > 1 THEN Some(r.page + 1) ELSE None]
    ELSE [url |-> None, num |-> None]

\* new_url and next_page_num, src/main.py:231-251
NextPage(r, length) ==
    IF length >= r.limit
    THEN [url |-> Some(RStrip(BASEURL, {"/"})
                        \o <<"/", "l", "o", "o", "k", "u", "p", "?">>
                        \o Join(NextPageParams(r), <<"&">>)),
          num |-> IF r.page > 0 THEN Some(r.page + 1) ELSE None]
    ELSE [url |-> None, num |-> None]

\* the 200 answer, src/main.py:253-260, unless building new_data raised
Success(r, length, new_data, next) ==
    IF ~new_data.ok THEN InternalServerError
    ELSE JsonResponse(200,
                      [limit |-> r.limit, count |-> length,
                       next_page_num |-> next.num, next_page |-> next.url,
                       data |-> new_data.value, error |-> None],
                      r.pretty)

\* the handler after the store has answered, src/main.py:209-260
Complete(r, reply) ==
    IF HasMessage(reply) THEN QueryFailure(r, reply)
    ELSE Success(r, Len(reply.rows), NewData(reply.rows),
                 NextPage(r, Len(reply.rows)))

-----------------------------------------------------------------------------
(* Requests and store replies the handler is run on *)

\* longest reply, in rows, whose rows are chosen freely
MaxRows == 2

\* largest page requested
MaxPage == 2

Prefixes == {<<>>, <<"8", ".", "8", ".", "8", ".", "0", "/", "2", "4">>}
Asns == {-2, -1, 0, 15169}
Tals == {<<>>, <<"a", "r", "i", "n">>, <<"a", "&", "b">>}
DateParams == {<<>>, <<"2", "0", "2", "2", "-", "0", "1", "-", "0", "1">>}
MaxLens == {-1, 24}
Limits == ((-1)..MaxRows) \cup {DefaultLimit}
Pages == (-1)..MaxPage

Requests ==
    [prefix : Prefixes, asn : Asns, tal : Tals, date : DateParams,
     max_len : MaxLens, limit : Limits, page : Pages, pretty : BOOLEAN]

\* rows as the store returns them; date_ranges holds raw interval tokens
GoogleRow ==
    [tal |-> "arin", prefix |-> "8.8.8.0/24", max_len |-> 24, asn |-> 15169,
     date_ranges |-> <<MakeToken(<<"[">>, Feb09, Jan27, <<")">>)>>]

TwoRangeRow ==
    [tal |-> "ripencc", prefix |-> "193.0.0.0/21", max_len |-> 21,
     asn |-> 3333,
     date_ranges |-> <<MakeToken(<<"[">>, Feb09, Feb09, <<"]">>),
                       MakeToken(<<"(">>, Feb09, Jan27, <<"]">>)>>]

\* a row whose only token cannot be split into two dates
BrokenRow ==
    [tal |-> "apnic", prefix |-> "1.1.1.0/24", max_len |-> 24, asn |-> 13335,
     date_ranges |-> <<<<"[">> \o DateText(Feb09)>>]

RowPool == {GoogleRow, BrokenRow}

\* a row with no date range at all
BareRow ==
    [tal |-> "arin", prefix |-> "8.8.4.0/24", max_len |-> 24, asn |-> 15169,
     date_ranges |-> <<>>]

\* a full default page: DefaultLimit well-formed rows
FullDefaultPage ==
    [i \in 1..DefaultLimit |->
        IF i = 1 THEN GoogleRow ELSE IF i = 2 THEN TwoRangeRow ELSE BareRow]

StoreMessages ==
    {"canceling statement due to statement timeout",
     "invalid input syntax for type cidr"}

StoreReplies ==
    {RowsReply(rows) :
        rows \in UNION {[1..n -> RowPool] : n \in 0..MaxRows}}
    \cup {RowsReply(FullDefaultPage)}
    \cup {MessageReply(m) : m \in StoreMessages}

-----------------------------------------------------------------------------
(* The handler as two steps around its one blocking call *)

\* a faulty variant of LookupBegin: the store is called before page is validated
LookupBegin_DispatchFirst(r) ==
    /\ pc = "idle"
    /\ req' = r
    /\ rpc' = Some(Dispatch(r))
    /\ storeCalls' = storeCalls + 1
    /\ IF PageIsValid(r)
       THEN /\ pc' = "waiting"
            /\ resp' = None
       ELSE /\ pc' = "done"
            /\ resp' = Some(ValidationFailure(r))
    /\ UNCHANGED <<data, rangeVars, pagerVars>>

\* src/main.py:197-208: validate page; answer 400, or call the store
LookupBegin(r) ==
    /\ pc = "idle"
    /\ req' = r
    /\ IF PageIsValid(r)
       THEN /\ rpc' = Some(Dispatch(r))
            /\ storeCalls' = storeCalls + 1
            /\ pc' = "waiting"
            /\ resp' = None
       ELSE /\ rpc' = None
            /\ storeCalls' = storeCalls
            /\ pc' = "done"
            /\ resp' = Some(ValidationFailure(r))
    /\ UNCHANGED <<data, rangeVars, pagerVars>>

\* src/main.py:209-260: the store has answered with d; build the response
LookupEnd(d) ==
    /\ pc = "waiting"
    /\ data' = Some(d)
    /\ rpc' = None
    /\ resp' = Some(Complete(req, d))
    /\ pc' = "done"
    /\ UNCHANGED <<req, storeCalls, rangeVars, pagerVars>>

Init ==
    /\ HandlerInit
    /\ RangeInit
    /\ PagerInit

Next ==
    \/ \E r \in Requests : LookupBegin(r)
    \/ \E d \in StoreReplies : LookupEnd(d)

Spec == Init /\ [][Next]_vars

-----------------------------------------------------------------------------
(* Reading a next_page URL back as a /lookup request *)

\* urllib's unquote_plus on the characters that occur here: '+' is a space
UnquotePlus(text) ==
    [i \in 1..Len(text) |-> IF text[i] = "+" THEN " " ELSE text[i]]

\* the query string of a URL: what follows the first '?'
QueryOf(url) == Join(Tail(Split(url, "?")), <<"?">>)

\* one "name=value" field as a pair; a field without '=' has an empty value
FieldPair(field) ==
    << UnquotePlus(Head(Split(field, "="))),
       UnquotePlus(Join(Tail(Split(field, "=")), <<"=">>)) >>

\* parse_qsl(query, keep_blank_values=True): the fields between '&'
ParseQuery(query) ==
    [i \in 1..Len(SelectSeq(Split(query, "&"), LAMBDA f : Len(f) > 0)) |->
        FieldPair(SelectSeq(Split(query, "&"), LAMBDA f : Len(f) > 0)[i])]

\* the value a scalar parameter takes: the last field of that name, if any
LastValue(pairs, name) ==
    IF \E i \in 1..Len(pairs) : pairs[i][1] = name
    THEN Some(pairs[CHOOSE i \in 1..Len(pairs) :
                        /\ pairs[i][1] = name
                        /\ \A j \in (i + 1)..Len(pairs) : pairs[j][1] /= name][2])
    ELSE None

\* a str parameter: the value given, else the default
StrParam(given, default) == IF given = None THEN default ELSE given[1]

\* text is an optional '-' and then decimal digits
IsIntText(text) ==
    /\ Len(LStrip(text, {"-"})) > 0
    /\ Len(text) - Len(LStrip(text, {"-"})) <= 1
    /\ AllDigits(LStrip(text, {"-"}))

\* int(text)
TextToInt(text) ==
    IF text[1] = "-" THEN 0 - DigitsToNat(Tail(text)) ELSE DigitsToNat(text)

\* an int parameter is acceptable: absent, or the text of an int
IntParamOk(given) == given = None \/ IsIntText(given[1])

\* an int parameter: the value given, else the default
IntParam(given, default) ==
    IF given = None THEN default ELSE TextToInt(given[1])

\* the request made of parsed fields; the framework answers 422 and does not
\* call the handler when an int parameter is not an int
RequestOf(pairs) ==
    IF ~(/\ IntParamOk(LastValue(pairs, ParamName.asn))
         /\ IntParamOk(LastValue(pairs, ParamName.max_len))
         /\ IntParamOk(LastValue(pairs, ParamName.limit))
         /\ IntParamOk(LastValue(pairs, ParamName.page)))
    THEN Raise("422")
    ELSE Return(
        [prefix |-> StrParam(LastValue(pairs, ParamName.prefix),
                             Defaults.prefix),
         asn |-> IntParam(LastValue(pairs, ParamName.asn), Defaults.asn),
         tal |-> StrParam(LastValue(pairs, ParamName.tal), Defaults.tal),
         date |-> StrParam(LastValue(pairs, ParamName.date), Defaults.date),
         max_len |-> IntParam(LastValue(pairs, ParamName.max_len),
                              Defaults.max_len),
         limit |-> IntParam(LastValue(pairs, ParamName.limit),
                            Defaults.limit),
         page |-> IntParam(LastValue(pairs, ParamName.page), Defaults.page),
         pretty |-> Defaults.pretty])

\* the /lookup request a GET of url makes
Replay(url) == RequestOf(ParseQuery(QueryOf(url)))

-----------------------------------------------------------------------------
(* Claims about the /lookup handler (Spec) *)

Done == pc = "done"

\* the response carries a result envelope
HasEnvelope == resp /= None /\ resp[1].body /= None

Envelope == resp[1].body[1]

\* the store answered with a list of rows
GotRows == data /= None /\ data[1].isList

\* the store answered with an object carrying a message
GotMessage == data /= None /\ ~data[1].isList

\* the response advertises a next page
AdvertisesNext ==
    HasEnvelope /\ (Envelope.next_page /= None \/ Envelope.next_page_num /= None)

FilterOrder == <<"prefix", "asn", "tal", "limit", "date", "max_len">>

\* the text of a filter's value in a query string
ValueText(r, f) ==
    IF f \in {"asn", "limit", "max_len"} THEN IntToStr(r[f]) ELSE r[f]

\* the filters whose requested value differs from the parameter's default
NonDefaultFilters(r) ==
    {f \in {"prefix", "asn", "tal", "limit", "date", "max_len"} :
        r[f] /= Defaults[f]}

\* the filters that constrain: a non-empty text, a non-negative asn or
\* max_len, a positive limit
ConstrainingFilters(r) ==
    {f \in {"prefix", "tal", "date"} : r[f] /= <<>>}
    \cup {f \in {"asn", "max_len"} : r[f] >= 0}
    \cup {f \in {"limit"} : r[f] > 0}

\* the URL of /lookup with the filters of kept, in the fixed order, each
\* with the requested value, then page=<page+1>
LookupUrl(r, kept) ==
    <<"h", "t", "t", "p", "s", ":", "/", "/",
      "a", "p", "i", ".", "r", "o", "a", "s", ".", 
      "b", "g", "p", "k", "i", "t", ".", "c", "o", "m", "/", "l", "o", "o", "k", "u", "p", "?">>
    \o Join([i \in 1..Len(SelectSeq(FilterOrder, LAMBDA f : f \in kept)) |->
                ParamName[SelectSeq(FilterOrder, LAMBDA f : f \in kept)[i]]
                \o <<"=">>
                \o ValueText(r, SelectSeq(FilterOrder,
                                          LAMBDA f : f \in kept)[i])]
            \o << ParamName.page \o <<"=">> \o IntToStr(r.page + 1) >>,
            <<"&">>)

\* the case of C2: page >= 1, and the store answered at least limit rows
FullPage ==
    /\ Done
    /\ req.page >= 1
    /\ GotRows
    /\ Len(data[1].rows) >= req.limit

\* C2 as stated: on a full page the next_page URL holds exactly the filters
\* whose requested value differs from its default, each with the requested
\* value, plus page=<page+1>, and no filter whose value equals its default.
C2_NextPageHoldsNonDefaultFilters ==
    (FullPage /\ HasEnvelope)
        => Envelope.next_page = Some(LookupUrl(req, NonDefaultFilters(req)))

\* C2 as amended: on a full page the next_page URL holds, in the order
\* prefix, asn, tal, limit, date, max_len, exactly the filters that
\* constrain (a non-empty prefix, tal or date, an asn or max_len >= 0, a
\* limit > 0, also when the limit is the default 100), each with the
\* requested value as it is, plus page=<page+1>.
C2_NextPageHoldsConstrainingFilters ==
    (FullPage /\ HasEnvelope)
        => Envelope.next_page = Some(LookupUrl(req, ConstrainingFilters(req)))

\* a full default page: limit=100 is in the URL though it is the default,
\* and asn=0 is in it too
C2_DefaultLimitInUrlSeen ==
    /\ FullPage /\ HasEnvelope
    /\ req.limit = DefaultLimit
    /\ req.asn = 0
    /\ req.prefix /= <<>>
    /\ Envelope.next_page /= None

\* C3: with page >= 1 and fewer rows than limit no next page is advertised
\* (next_page_num and next_page are both null); next_page_num and next_page
\* are never one null and the other not; when present next_page_num is
\* page + 1.
C3_NextPageFieldsAgree ==
    /\ (Done /\ req.page >= 1 /\ GotRows /\ Len(data[1].rows) < req.limit)
           => ~AdvertisesNext
    /\ (Done /\ HasEnvelope)
           => /\ (Envelope.next_page_num = None) <=> (Envelope.next_page = None)
              /\ Envelope.next_page_num /= None
                     => Envelope.next_page_num = Some(req.page + 1)

\* a short page answered 200 with both fields null
C3_ShortPageSeen ==
    /\ Done /\ req.page >= 1 /\ GotRows
    /\ Len(data[1].rows) = 1 /\ req.limit = 2
    /\ HasEnvelope /\ resp[1].status = 200
    /\ Envelope.next_page = None /\ Envelope.next_page_num = None

\* C4: page < 1 yields status 400 with empty data, count 0, next_page and
\* next_page_num null and a non-null error, whatever the other parameters;
\* the page is not clamped to 1: nothing is dispatched to the store.
C4_InvalidPageIs400 ==
    (Done /\ req.page < 1)
        => /\ HasEnvelope
           /\ resp[1].status = 400
           /\ Envelope.data = <<>>
           /\ Envelope.count = 0
           /\ Envelope.next_page = None
           /\ Envelope.next_page_num = None
           /\ Envelope.error /= None
           /\ rpc = None /\ data = None /\ storeCalls = 0

\* page = 0 with every other parameter set and pretty on
C4_InvalidPageSeen ==
    /\ Done /\ req.page = 0
    /\ req.prefix /= <<>> /\ req.asn = 15169 /\ req.tal /= <<>>
    /\ req.date /= <<>> /\ req.max_len = 24 /\ req.limit = 1 /\ req.pretty
    /\ resp[1].status = 400

\* C5: when the store's reply carries a message, the status is 400, error
\* is that message verbatim, data is empty, count is 0 and no next page is
\* advertised.
C5_StoreMessageIs400 ==
    (Done /\ GotMessage)
        => /\ HasEnvelope
           /\ resp[1].status = 400
           /\ Envelope.error = Some(data[1].message)
           /\ Envelope.data = <<>>
           /\ Envelope.count = 0
           /\ Envelope.next_page = None
           /\ Envelope.next_page_num = None

\* a store failure while limit is 0, where any row count is >= limit
C5_StoreMessageSeen ==
    /\ Done /\ GotMessage /\ req.limit = 0
    /\ Envelope.error = Some("invalid input syntax for type cidr")

\* C6: every request ends with status 200 or 400 and a result envelope,
\* for every store reply, rows with an unparsable token included; never 500.
C6_AlwaysEnvelope ==
    Done => /\ HasEnvelope
            /\ resp[1].status \in {200, 400}

\* C7: when a next page is advertised, reading the next_page URL as a new
\* /lookup request gives the same prefix, asn, tal, date, max_len and limit
\* and page + 1.
C7_CursorReplays ==
    (Done /\ req.page >= 1 /\ HasEnvelope /\ Envelope.next_page /= None)
        => /\ Replay(Envelope.next_page[1]).ok
           /\ \A f \in {"prefix", "asn", "tal", "date", "max_len", "limit"} :
                  Replay(Envelope.next_page[1]).value[f] = req[f]
           /\ Replay(Envelope.next_page[1]).value.page = req.page + 1

\* C9: the store is called zero times when page < 1 and exactly once
\* otherwise: page < 1 is the only parameter condition that prevents the
\* dispatch, and a store failure is answered without a second call.
C9_OneStoreCall ==
    /\ storeCalls <= 1
    /\ pc /= "idle" => (storeCalls = 0 <=> req.page < 1)
    /\ pc = "waiting" => rpc = Some(Dispatch(req))
    /\ (Done /\ req.page >= 1) => (storeCalls = 1 /\ data /= None)

\* a store failure answered after one call
C9_FailureAfterOneCallSeen ==
    /\ Done /\ GotMessage /\ storeCalls = 1
    /\ resp[1].status = 400

-----------------------------------------------------------------------------
(* A client that pages through an unchanging store (SpecPager) *)

\* most rows the store holds
MaxStoreRows == 8

\* largest limit the paging client uses
MaxPagerLimit == 4

\* the i-th matching row of the store
StoredRow(i) ==
    [tal |-> "arin", prefix |-> "8.8.8.0/24", max_len |-> 24, asn |-> i,
     date_ranges |-> <<MakeToken(<<"[">>, Feb09, Jan27, <<")">>)>>]

Min(a, b) == IF a < b THEN a ELSE b

\* the unchanging store's answer to a call: its rows at the positions
\* res_offset .. res_offset + res_limit - 1, counted from 0
StoreAnswer(rows, args) ==
    RowsReply(SubSeq(rows, args.res_offset + 1,
                     Min(args.res_offset + args.res_limit, Len(rows))))

\* the whole handler on request r against a store holding rows,
\* src/main.py:197-260
Lookup(r, rows) ==
    IF PageIsValid(r) THEN Complete(r, StoreAnswer(rows, Dispatch(r)))
    ELSE ValidationFailure(r)

\* the request the client makes next: defaults but for page and limit
ClientRequest == [Defaults EXCEPT !.page = cpage, !.limit = climit]

\* the response is a 200 that advertises a next page
Advertised(response) ==
    response.status = 200 /\ response.body[1].next_page /= None

\* the request the advertised next_page URL makes
Advertisement(response) == Replay(response.body[1].next_page[1])

\* where the client stands after a response: it fails on an error or on a
\* URL that is no request, goes on when a next page is advertised, and is
\* done otherwise
ClientAfter(response) ==
    IF response.status /= 200 THEN "failed"
    ELSE IF ~Advertised(response) THEN "done"
    ELSE IF Advertisement(response).ok THEN "paging"
    ELSE "failed"

\* the client takes a response: it keeps the rows and follows next_page
\* when one is advertised
Receive(response) ==
    /\ requests' = requests + 1
    /\ cpc' = ClientAfter(response)
    /\ got' = IF response.status = 200 THEN got \o response.body[1].data
              ELSE got
    /\ emptyLater' =
           IF response.status = 200 /\ response.body[1].count = 0
              /\ requests >= 1
           THEN emptyLater + 1 ELSE emptyLater
    /\ cpage' = IF ClientAfter(response) = "paging"
                THEN Advertisement(response).value.page ELSE cpage
    /\ climit' = IF ClientAfter(response) = "paging"
                 THEN Advertisement(response).value.limit ELSE climit

\* one request of the client and the handler's response to it
PagerRequest ==
    /\ cpc = "paging"
    /\ requests < MaxStoreRows + 2
    /\ Receive(Lookup(ClientRequest, store))
    /\ UNCHANGED <<store, handlerVars, rangeVars>>

InitPager ==
    /\ HandlerInit
    /\ RangeInit
    /\ store \in {[i \in 1..n |-> StoredRow(i)] : n \in 0..MaxStoreRows}
    /\ climit \in 1..MaxPagerLimit
    /\ cpc = "paging"
    /\ cpage = 1
    /\ got = <<>>
    /\ emptyLater = 0
    /\ requests = 0

NextPager == PagerRequest

\* a request is made and answered: the steps of PagerRequest are the steps
\* that count a request, and both are enabled in the same states
ClientAsks ==
    /\ cpc = "paging"
    /\ requests < MaxStoreRows + 2
    /\ requests' = requests + 1

\* the client goes on requesting while a next page is advertised, and the
\* handler, which is synchronous, answers every request
SpecPager == InitPager /\ [][NextPager]_vars /\ WF_requests(ClientAsks)

\* the i-th row as the client is to receive it: its range made closed
DeliveredRow(i) ==
    [tal |-> "arin", prefix |-> "8.8.8.0/24", max_len |-> 24, asn |-> i,
     date_ranges |-> << <<DateText(Feb09),
                          DateText([y |-> 2022, m |-> 1, d |-> 26])>> >>]

\* C8: a client that starts at page 1 with limit L >= 1 and follows the
\* advertised next page stops after finitely many requests, having received
\* every row of the store exactly once and in store order (page p is
\* dispatched with offset (p-1)*L); it receives an empty page after the first
\* page only when N is a positive multiple of L, and then exactly one.
C8_PagingDeliversEveryRowOnce ==
    /\ <>(cpc = "done")
    /\ [](/\ cpc /= "failed"
          /\ climit >= 1
          /\ cpc = "paging" =>
                /\ Dispatch(ClientRequest).res_offset = (cpage - 1) * climit
                /\ Dispatch(ClientRequest).res_offset = Len(got)
          /\ got = [i \in 1..Len(got) |-> DeliveredRow(i)]
          /\ cpc = "done" =>
                /\ Len(got) = Len(store)
                /\ requests = (Len(store) \div climit) + 1
                /\ emptyLater = IF Len(store) > 0 /\ Len(store) % climit = 0
                                THEN 1 ELSE 0)

\* four rows paged by two: two full pages, then the one empty page
C8_ExtraEmptyPageSeen ==
    /\ cpc = "done"
    /\ Len(store) = 4 /\ climit = 2
    /\ requests = 3 /\ emptyLater = 1
    /\ Len(got) = 4

====
